---- MODULE Spec2Model ----
(***************************************************************************)
(* Model of src/core/server/extensions/playerFunctions/emit.ts of          *)
(* altv-athena: the player-scoped emit helpers, the host primitives they   *)
(* call (alt.emitClient, alt.logWarning, alt.nextTick) and the data they   *)
(* read (player.data.isDead, player positions, progress-bar payloads).     *)
(*                                                                         *)
(* Every value that travels in an event is encoded as a string: numbers    *)
(* by their decimal text ("-1", "0.35"), a missing argument by Undefined,  *)
(* objects passed by reference by the name of the object.                  *)
(*                                                                         *)
(* sent and warnings are the observation window of the most recent step:   *)
(* the alt.emitClient and alt.logWarning calls made by the most recent     *)
(* invocation (an exported function, or the scheduler running the          *)
(* alt.nextTick callbacks), in order.  last records which invocation that  *)
(* was, with its arguments and its return value.                           *)
(***************************************************************************)
EXTENDS Integers, Sequences, FiniteSets

\* ------------------------------------------------------------------ bounds

\* Highest scheduler tick the model explores.
MaxTick == 1
\* Most alt.nextTick callbacks pending at once.
MaxQueue == 1

\* ------------------------------------------------------------ input domains

\* The JS value undefined: an argument the caller left out, an unset field.
Undefined == "<undefined>"

\* Connected players, in the order of the host's registry (alt.Player.all).
PlayerAll == <<1, 2, 3>>
Players == {PlayerAll[i] : i \in DOMAIN PlayerAll}

\* Positions of the three players on a line, as <<x1, x2, x3>>.
Layouts == {<<0, 0, 0>>, <<0, 10, 11>>, <<0, 11, 22>>}

Durations == {Undefined, "5000"}
Volumes == {Undefined, "1"}
BroadcastFlags == {Undefined, "false", "true"}
\* uid of a progress-bar payload as its caller builds it.
CallerUids == {Undefined, "", "uid-A"}
\* Outcomes of Math.random inside sha256Random.
Randoms == {"r1", "r2"}

VARIABLES
    isDead,         \* player.data.isDead of every player
    pos,            \* position of every player
    progressbar,    \* the progress-bar payload object held by the caller
    tick,           \* scheduler tick counter of the host
    nextTickQueue,  \* callbacks registered with alt.nextTick, not yet run
    sent,           \* alt.emitClient calls of the most recent step
    warnings,       \* alt.logWarning calls of the most recent step
    last            \* the most recent step: function, arguments, result

vars == <<isDead, pos, progressbar, tick, nextTickQueue, sent, warnings, last>>

world == <<isDead, pos>>

\* ------------------------------------------------------------ host runtime

\* alt.emitClient(player, eventName, ...args) appended to the log `log`.
\* issued is the scheduler tick in which the exported function that caused
\* the send was called.  The send itself happens in the tick of the state
\* whose window holds it.
emitClient(log, player, eventName, args, issued) ==
    Append(log, [to |-> player, event |-> eventName, args |-> args, issued |-> issued])

\* alt.logWarning(text) appended to the log `log`.
logWarning(log, text) == Append(log, text)

\* JS truthiness of a string-or-undefined value: !v is true for undefined
\* and for the empty string.
Falsy(v) == v = Undefined \/ v = ""

\* The record of a call of an exported function.
Call(fn, player, args, ret) ==
    [fn |-> fn, player |-> player, args |-> args, ret |-> ret,
     queried |-> FALSE, hashed |-> FALSE, pre |-> Undefined]

Idle == Call("none", 0, <<>>, Undefined)

\* ------------------------------------------------------ exported functions

animationNoDefault(player, dictionary, name, flags, duration) ==
    /\ IF isDead[player]
       THEN /\ warnings' = logWarning(<<>>, <<"[Athena] Cannot play", dictionary, "@", name, "while player is dead.">>)
            /\ sent' = <<>>
       ELSE /\ warnings' = <<>>
            /\ sent' = emitClient(<<>>, player, "PLAYER_EMIT_ANIMATION",
                                  <<dictionary, name, flags, duration>>, tick)
    /\ last' = Call("animation", player, <<dictionary, name, flags, duration>>, Undefined)
    /\ UNCHANGED <<world, progressbar, tick, nextTickQueue>>

animationNoDeadCheck(player, dictionary, name, flags, duration) ==
    LET d == IF duration = Undefined THEN "-1" ELSE duration IN
    /\ warnings' = <<>>
    /\ sent' = emitClient(<<>>, player, "PLAYER_EMIT_ANIMATION",
                          <<dictionary, name, flags, d>>, tick)
    /\ last' = Call("animation", player, <<dictionary, name, flags, duration>>, Undefined)
    /\ UNCHANGED <<world, progressbar, tick, nextTickQueue>>

animation(player, dictionary, name, flags, duration) ==
    LET d == IF duration = Undefined THEN "-1" ELSE duration IN
    /\ IF isDead[player]
       THEN /\ warnings' = logWarning(<<>>, <<"[Athena] Cannot play", dictionary, "@", name, "while player is dead.">>)
            /\ sent' = <<>>
       ELSE /\ warnings' = <<>>
            /\ sent' = emitClient(<<>>, player, "PLAYER_EMIT_ANIMATION",
                                  <<dictionary, name, flags, d>>, tick)
    /\ last' = Call("animation", player, <<dictionary, name, flags, duration>>, Undefined)
    /\ UNCHANGED <<world, progressbar, tick, nextTickQueue>>

scenarioWarns(player, name, duration) ==
    /\ IF isDead[player]
       THEN /\ sent' = <<>>
            /\ warnings' = logWarning(<<>>, <<"[Athena] Cannot play", name, "while player is dead.">>)
       ELSE /\ sent' = emitClient(<<>>, player, "PLAYER_EMIT_SCENARIO", <<name, duration>>, tick)
            /\ warnings' = <<>>
    /\ last' = Call("scenario", player, <<name, duration>>, Undefined)
    /\ UNCHANGED <<world, progressbar, tick, nextTickQueue>>

scenario(player, name, duration) ==
    /\ IF isDead[player]
       THEN sent' = <<>>
       ELSE sent' = emitClient(<<>>, player, "PLAYER_EMIT_SCENARIO", <<name, duration>>, tick)
    /\ warnings' = <<>>
    /\ last' = Call("scenario", player, <<name, duration>>, Undefined)
    /\ UNCHANGED <<world, progressbar, tick, nextTickQueue>>

metaInline(player, key, value) ==
    /\ Len(nextTickQueue) < MaxQueue
    /\ sent' = emitClient(<<>>, player, "META_SET", <<key, value>>, tick)
    /\ warnings' = <<>>
    /\ last' = Call("meta", player, <<key, value>>, Undefined)
    /\ UNCHANGED <<world, progressbar, tick, nextTickQueue>>

\* alt.nextTick(callback): the callback, a closure over player, key and
\* value, joins the queue the scheduler runs at its next tick.
meta(player, key, value) ==
    /\ Len(nextTickQueue) < MaxQueue
    /\ nextTickQueue' = Append(nextTickQueue,
            [player |-> player, key |-> key, value |-> value, issued |-> tick])
    /\ sent' = <<>>
    /\ warnings' = <<>>
    /\ last' = Call("meta", player, <<key, value>>, Undefined)
    /\ UNCHANGED <<world, progressbar, tick>>

\* The body of the callback meta registers.
metaCallback(log, closure) ==
    emitClient(log, closure.player, "META_SET", <<closure.key, closure.value>>, closure.issued)

message(player, msg) ==
    /\ sent' = emitClient(<<>>, player, "View_Events_Chat.Append", <<msg>>, tick)
    /\ warnings' = <<>>
    /\ last' = Call("message", player, <<msg>>, Undefined)
    /\ UNCHANGED <<world, progressbar, tick, nextTickQueue>>

notification(player, msg) ==
    /\ sent' = emitClient(<<>>, player, "PLAYER_EMIT_NOTIFICATION", <<msg>>, tick)
    /\ warnings' = <<>>
    /\ last' = Call("notification", player, <<msg>>, Undefined)
    /\ UNCHANGED <<world, progressbar, tick, nextTickQueue>>

\* utility.getClosestPlayers(player, distance): the registered players within
\* `distance` of `player` (the player itself among them), in registry order.
Distance(a, b) == IF a >= b THEN a - b ELSE b - a

getClosestPlayers(player, distance) ==
    SelectSeq(PlayerAll, LAMBDA q : Distance(pos[player], pos[q]) <= distance)

\* The for loop of particle: one emitClient per element of nearbyPlayers.
RECURSIVE particleLoop(_, _, _, _)
particleLoop(log, nearbyPlayers, i, payload) ==
    IF i > Len(nearbyPlayers) THEN log
    ELSE particleLoop(
            emitClient(log, nearbyPlayers[i], "PLAY_PARTICLE_EFFECT", <<payload>>, tick),
            nearbyPlayers, i + 1, payload)

particleToOrigin(player, payload, emitToNearbyPlayers) ==
    LET flag == IF emitToNearbyPlayers = Undefined THEN "false" ELSE emitToNearbyPlayers
        nearbyPlayers == getClosestPlayers(player, 10)
    IN
    /\ IF flag # "true"
       THEN /\ sent' = emitClient(<<>>, player, "PLAY_PARTICLE_EFFECT", <<payload>>, tick)
            /\ last' = Call("particle", player, <<payload, emitToNearbyPlayers>>, Undefined)
       ELSE /\ sent' = [i \in 1..Len(nearbyPlayers) |->
                            [to |-> player, event |-> "PLAY_PARTICLE_EFFECT",
                             args |-> <<payload>>, issued |-> tick]]
            /\ last' = [Call("particle", player, <<payload, emitToNearbyPlayers>>, Undefined)
                            EXCEPT !.queried = TRUE]
    /\ warnings' = <<>>
    /\ UNCHANGED <<world, progressbar, tick, nextTickQueue>>

particleAlwaysBroadcast(player, payload, emitToNearbyPlayers) ==
    LET nearbyPlayers == getClosestPlayers(player, 10) IN
    /\ sent' = particleLoop(<<>>, nearbyPlayers, 1, payload)
    /\ last' = [Call("particle", player, <<payload, emitToNearbyPlayers>>, Undefined)
                    EXCEPT !.queried = TRUE]
    /\ warnings' = <<>>
    /\ UNCHANGED <<world, progressbar, tick, nextTickQueue>>

particleNoReturn(player, payload, emitToNearbyPlayers) ==
    LET flag == IF emitToNearbyPlayers = Undefined THEN "false" ELSE emitToNearbyPlayers
        nearbyPlayers == getClosestPlayers(player, 10)
        first == IF flag # "true"
                 THEN emitClient(<<>>, player, "PLAY_PARTICLE_EFFECT", <<payload>>, tick)
                 ELSE <<>>
    IN
    /\ sent' = particleLoop(first, nearbyPlayers, 1, payload)
    /\ last' = [Call("particle", player, <<payload, emitToNearbyPlayers>>, Undefined)
                    EXCEPT !.queried = TRUE]
    /\ warnings' = <<>>
    /\ UNCHANGED <<world, progressbar, tick, nextTickQueue>>

particle(player, payload, emitToNearbyPlayers) ==
    LET flag == IF emitToNearbyPlayers = Undefined THEN "false" ELSE emitToNearbyPlayers
        nearbyPlayers == getClosestPlayers(player, 10)
    IN
    /\ IF flag # "true"
       THEN /\ sent' = emitClient(<<>>, player, "PLAY_PARTICLE_EFFECT", <<payload>>, tick)
            /\ last' = Call("particle", player, <<payload, emitToNearbyPlayers>>, Undefined)
       ELSE /\ sent' = particleLoop(<<>>, nearbyPlayers, 1, payload)
            /\ last' = [Call("particle", player, <<payload, emitToNearbyPlayers>>, Undefined)
                            EXCEPT !.queried = TRUE]
    /\ warnings' = <<>>
    /\ UNCHANGED <<world, progressbar, tick, nextTickQueue>>

\* JSON.stringify(progressbar): the fields of the payload in order, a field
\* whose value is undefined left out.
JSONstringify(bar) ==
    IF bar.uid = Undefined THEN <<"text", bar.text>>
    ELSE <<"text", bar.text, "uid", bar.uid>>

\* sha256Random(data): the hex digest of data joined with a random number,
\* random being the outcome of Math.random.  Never the empty string.
sha256Random(data, random) ==
    CASE Len(data) = 2 /\ random = "r1" -> "sha256:3a7f"
      [] Len(data) = 2 /\ random # "r1" -> "sha256:c41e"
      [] Len(data) # 2 /\ random = "r1" -> "sha256:90bd"
      [] OTHER -> "sha256:e652"

createProgressBarAlwaysNew(player, random) ==
    LET uid == sha256Random(JSONstringify(progressbar), random)
    IN
    /\ progressbar' = [progressbar EXCEPT !.uid = uid]
    /\ sent' = emitClient(<<>>, player, "PROGRESSBAR_CREATE", <<progressbar.text, uid>>, tick)
    /\ warnings' = <<>>
    /\ last' = [Call("createProgressBar", player, <<"progressbar">>, uid)
                    EXCEPT !.hashed = TRUE, !.pre = progressbar.uid]
    /\ UNCHANGED <<world, tick, nextTickQueue>>

createProgressBarStaleReturn(player, random) ==
    LET generate == Falsy(progressbar.uid)
        uid == IF generate THEN sha256Random(JSONstringify(progressbar), random)
               ELSE progressbar.uid
    IN
    /\ progressbar' = [progressbar EXCEPT !.uid = uid]
    /\ sent' = emitClient(<<>>, player, "PROGRESSBAR_CREATE", <<progressbar.text, uid>>, tick)
    /\ warnings' = <<>>
    /\ last' = [Call("createProgressBar", player, <<"progressbar">>, progressbar.uid)
                    EXCEPT !.hashed = generate, !.pre = progressbar.uid]
    /\ UNCHANGED <<world, tick, nextTickQueue>>

\* The payload is sent as it is at the time of the send: its text and the
\* uid it then carries.
createProgressBar(player, random) ==
    LET generate == Falsy(progressbar.uid)
        uid == IF generate THEN sha256Random(JSONstringify(progressbar), random)
               ELSE progressbar.uid
    IN
    /\ progressbar' = [progressbar EXCEPT !.uid = uid]
    /\ sent' = emitClient(<<>>, player, "PROGRESSBAR_CREATE", <<progressbar.text, uid>>, tick)
    /\ warnings' = <<>>
    /\ last' = [Call("createProgressBar", player, <<"progressbar">>, uid)
                    EXCEPT !.hashed = generate, !.pre = progressbar.uid]
    /\ UNCHANGED <<world, tick, nextTickQueue>>

removeProgressBar(player, uid) ==
    /\ sent' = emitClient(<<>>, player, "PROGRESSBAR_REMOVE", <<uid>>, tick)
    /\ warnings' = <<>>
    /\ last' = Call("removeProgressBar", player, <<uid>>, Undefined)
    /\ UNCHANGED <<world, progressbar, tick, nextTickQueue>>

sound2D(p, audioName, volume) ==
    LET v == IF volume = Undefined THEN "0.35" ELSE volume IN
    /\ sent' = emitClient(<<>>, p, "PLAYER_EMIT_SOUND_2D", <<audioName, v>>, tick)
    /\ warnings' = <<>>
    /\ last' = Call("sound2D", p, <<audioName, volume>>, Undefined)
    /\ UNCHANGED <<world, progressbar, tick, nextTickQueue>>

sound3D(p, audioName, target) ==
    /\ sent' = emitClient(<<>>, p, "PLAYER_EMIT_SOUND_3D", <<target, audioName>>, tick)
    /\ warnings' = <<>>
    /\ last' = Call("sound3D", p, <<audioName, target>>, Undefined)
    /\ UNCHANGED <<world, progressbar, tick, nextTickQueue>>

soundFrontend(p, audioName, ref) ==
    /\ sent' = emitClient(<<>>, p, "PLAYER_EMIT_FRONTEND_SOUND", <<audioName, ref>>, tick)
    /\ warnings' = <<>>
    /\ last' = Call("soundFrontend", p, <<audioName, ref>>, Undefined)
    /\ UNCHANGED <<world, progressbar, tick, nextTickQueue>>

taskTimeline(player, tasks) ==
    /\ sent' = emitClient(<<>>, player, "PLAYER_EMIT_TASK_TIMELINE", <<tasks>>, tick)
    /\ warnings' = <<>>
    /\ last' = Call("taskTimeline", player, <<tasks>>, Undefined)
    /\ UNCHANGED <<world, progressbar, tick, nextTickQueue>>

inputMenu(player, menu) ==
    /\ sent' = emitClient(<<>>, player, "View_Events_Input_Menu.SetMenu", <<menu>>, tick)
    /\ warnings' = <<>>
    /\ last' = Call("inputMenu", player, <<menu>>, Undefined)
    /\ UNCHANGED <<world, progressbar, tick, nextTickQueue>>

createSpinner(player, spinner) ==
    /\ sent' = emitClient(<<>>, player, "PLAYER_EMIT_SPINNER", <<spinner>>, tick)
    /\ warnings' = <<>>
    /\ last' = Call("createSpinner", player, <<spinner>>, Undefined)
    /\ UNCHANGED <<world, progressbar, tick, nextTickQueue>>

clearSpinner(player) ==
    /\ sent' = emitClient(<<>>, player, "PLAYER_EMIT_SPINNER_CLEAR", <<>>, tick)
    /\ warnings' = <<>>
    /\ last' = Call("clearSpinner", player, <<>>, Undefined)
    /\ UNCHANGED <<world, progressbar, tick, nextTickQueue>>

createErrorScreen(player, screen) ==
    /\ sent' = emitClient(<<>>, player, "PLAYER_EMIT_ERROR_SCREEN", <<screen>>, tick)
    /\ warnings' = <<>>
    /\ last' = Call("createErrorScreen", player, <<screen>>, Undefined)
    /\ UNCHANGED <<world, progressbar, tick, nextTickQueue>>

clearErrorScreen(player) ==
    /\ sent' = emitClient(<<>>, player, "PLAYER_EMIT_ERROR_SCREEN_CLEAR", <<>>, tick)
    /\ warnings' = <<>>
    /\ last' = Call("clearErrorScreen", player, <<>>, Undefined)
    /\ UNCHANGED <<world, progressbar, tick, nextTickQueue>>

\* ------------------------------------------------------------ the scheduler

RECURSIVE RunCallbacks(_, _)
RunCallbacks(log, queue) ==
    IF queue = <<>> THEN log
    ELSE RunCallbacks(metaCallback(log, Head(queue)), Tail(queue))

\* The host starts its next tick and runs every callback registered with
\* alt.nextTick during the tick before, in registration order.
Tick ==
    /\ tick < MaxTick
    /\ tick' = tick + 1
    /\ sent' = RunCallbacks(<<>>, nextTickQueue)
    /\ nextTickQueue' = <<>>
    /\ warnings' = <<>>
    /\ last' = Call("tick", 0, <<>>, Undefined)
    /\ UNCHANGED <<world, progressbar>>

\* -------------------------------------------------------------- environment

\* Another module of the server sets player.data.isDead.
SetDead(player, dead) ==
    /\ isDead' = [isDead EXCEPT ![player] = dead]
    /\ sent' = <<>> /\ warnings' = <<>> /\ last' = Idle
    /\ UNCHANGED <<pos, progressbar, tick, nextTickQueue>>

\* The players move.
Relocate(layout) ==
    /\ pos' = [p \in Players |-> layout[p]]
    /\ sent' = <<>> /\ warnings' = <<>> /\ last' = Idle
    /\ UNCHANGED <<isDead, progressbar, tick, nextTickQueue>>

\* The caller builds a new progress-bar payload.
NewProgressBar(uid) ==
    /\ progressbar' = [text |-> "Loading", uid |-> uid]
    /\ sent' = <<>> /\ warnings' = <<>> /\ last' = Idle
    /\ UNCHANGED <<world, tick, nextTickQueue>>

Init ==
    /\ isDead = [p \in Players |-> FALSE]
    /\ pos = [p \in Players |-> 0]
    /\ progressbar = [text |-> "Loading", uid |-> Undefined]
    /\ tick = 0
    /\ nextTickQueue = <<>>
    /\ sent = <<>>
    /\ warnings = <<>>
    /\ last = Idle

Next ==
    \/ \E p \in Players, d \in Durations : animation(p, "dict", "anim", "1", d)
    \/ \E p \in Players, d \in Durations : scenario(p, "WORLD_HUMAN_SMOKING", d)
    \/ \E p \in Players : meta(p, "key", "value")
    \/ \E p \in Players : message(p, "hello")
    \/ \E p \in Players : notification(p, "hello")
    \/ \E p \in Players, f \in BroadcastFlags : particle(p, "particle#1", f)
    \/ \E p \in Players, r \in Randoms : createProgressBar(p, r)
    \/ \E p \in Players, u \in {"uid-A", progressbar.uid} : removeProgressBar(p, u)
    \/ \E p \in Players, v \in Volumes : sound2D(p, "audio", v)
    \/ \E p \in Players : sound3D(p, "audio", "entity#1")
    \/ \E p \in Players : soundFrontend(p, "audio", "ref")
    \/ \E p \in Players : taskTimeline(p, "tasks#1")
    \/ \E p \in Players : inputMenu(p, "menu#1")
    \/ \E p \in Players : createSpinner(p, "spinner#1")
    \/ \E p \in Players : clearSpinner(p)
    \/ \E p \in Players : createErrorScreen(p, "screen#1")
    \/ \E p \in Players : clearErrorScreen(p)
    \/ \E u \in CallerUids : NewProgressBar(u)
    \/ Tick
    \/ \E p \in Players, b \in BOOLEAN : SetDead(p, b)
    \/ \E l \in Layouts : Relocate(l)

Spec == Init /\ [][Next]_vars

\* ------------------------------------------------------------------ claims

\* The most recent step was a call of an exported function.
IsExportedCall == last.fn \notin {"none", "tick"}

\* The players within the 10-unit radius of player p, p among them.
WithinRadius(p) == {q \in Players : Distance(pos[p], pos[q]) <= 10}

\* The one send a call of particle makes to player q.
ParticleSend(q) ==
    [to |-> q, event |-> "PLAY_PARTICLE_EFFECT", args |-> <<last.args[1]>>, issued |-> tick]

\* C1: animation called for a player whose data.isDead is true sends nothing
\* to anybody and logs exactly one warning, whatever the other arguments.
C1_DeadAnimationWarnsOnly ==
    (last.fn = "animation" /\ isDead[last.player])
        => sent = <<>> /\ Len(warnings) = 1

C1_Witness ==
    last.fn = "animation" /\ isDead[last.player] /\ last.args[4] = Undefined

\* C2: scenario called for a player whose data.isDead is true sends nothing
\* to anybody and logs nothing.
C2_DeadScenarioSilent ==
    (last.fn = "scenario" /\ isDead[last.player])
        => sent = <<>> /\ warnings = <<>>

C2_Witness ==
    last.fn = "scenario" /\ isDead[last.player]

\* C3: a meta call made in tick t sends nothing in tick t; it leaves exactly
\* one callback pending, and the scheduler's next tick, a tick greater than
\* t, sends exactly one META_SET per pending callback, with the call's
\* player, key and value; no other step sends a META_SET or touches the
\* pending callbacks.  So the META_SET follows every send made in tick t.
C3_MetaSentNextTick ==
    [][/\ last'.fn = "meta" =>
            /\ sent' = <<>>
            /\ tick' = tick
            /\ nextTickQueue' = Append(nextTickQueue,
                    [player |-> last'.player, key |-> last'.args[1],
                     value |-> last'.args[2], issued |-> tick])
       /\ last'.fn = "tick" =>
            /\ nextTickQueue' = <<>>
            /\ Len(sent') = Len(nextTickQueue)
            /\ \A i \in DOMAIN nextTickQueue :
                    /\ sent'[i] = [to |-> nextTickQueue[i].player, event |-> "META_SET",
                                   args |-> <<nextTickQueue[i].key, nextTickQueue[i].value>>,
                                   issued |-> nextTickQueue[i].issued]
                    /\ tick' > sent'[i].issued
       /\ last'.fn \notin {"meta", "tick"} =>
            /\ nextTickQueue' = nextTickQueue
            /\ \A i \in DOMAIN sent' :
                    sent'[i].event # "META_SET" /\ sent'[i].issued = tick'
      ]_vars

C3_Witness ==
    /\ last.fn = "tick"
    /\ Len(sent) >= 1
    /\ \A i \in DOMAIN sent : sent[i].event = "META_SET" /\ sent[i].issued < tick

\* C4: particle with the broadcast flag true, N players (the origin counted)
\* within the 10-unit radius of the origin: exactly N PLAY_PARTICLE_EFFECT
\* sends, one to each of those players, each carrying the same payload.
C4_ParticleBroadcast ==
    (last.fn = "particle" /\ last.args[2] = "true") =>
        /\ Len(sent) = Cardinality(WithinRadius(last.player))
        /\ \A q \in WithinRadius(last.player) :
                Cardinality({i \in DOMAIN sent : sent[i] = ParticleSend(q)}) = 1
        /\ \A i \in DOMAIN sent : sent[i].to \in WithinRadius(last.player)

C4_Witness ==
    /\ last.fn = "particle" /\ last.args[2] = "true"
    /\ Len(sent) = 2
    /\ \E i \in DOMAIN sent : sent[i].to # last.player

\* C5: particle with the broadcast flag false or omitted: exactly one send,
\* to the origin player, and the player registry is not queried.
C5_ParticleOriginOnly ==
    (last.fn = "particle" /\ last.args[2] \in {Undefined, "false"}) =>
        /\ sent = <<ParticleSend(last.player)>>
        /\ ~last.queried

C5_Witness ==
    /\ last.fn = "particle" /\ last.args[2] = Undefined
    /\ Cardinality(WithinRadius(last.player)) = 3
    /\ Len(sent) = 1

\* C6 as stated: a payload whose uid field holds any string, the empty
\* string included, keeps that uid across createProgressBar, and nothing is
\* generated.
C6_UidPreserved_Original ==
    (last.fn = "createProgressBar" /\ last.pre # Undefined)
        => progressbar.uid = last.pre /\ ~last.hashed

\* C6 amended: a payload whose uid field holds a non-empty string keeps that
\* uid across createProgressBar, and nothing is generated.
C6_NonEmptyUidPreserved ==
    (last.fn = "createProgressBar" /\ ~Falsy(last.pre))
        => progressbar.uid = last.pre /\ ~last.hashed

C6_Witness ==
    last.fn = "createProgressBar" /\ last.pre = "uid-A" /\ progressbar.uid = "uid-A"

\* The callback a meta call leaves pending: the closure over its arguments.
ClosureOf(call, issued) ==
    [player |-> call.player, key |-> call.args[1], value |-> call.args[2], issued |-> issued]

\* What a call of an exported function may change besides the windows: the
\* uid of the progress-bar payload, by createProgressBar alone.
OnlyUidWritten ==
    /\ isDead' = isDead
    /\ pos' = pos
    /\ tick' = tick
    /\ progressbar'.text = progressbar.text
    /\ last'.fn # "createProgressBar" => progressbar' = progressbar

\* C8 as stated: a call passes its payload to emitClient at most once; once
\* it has returned no send of the payload is pending and nothing holds the
\* payload; the only state that differs is the uid createProgressBar wrote.
C8_SentOnceNotRetained_Original ==
    [][IsExportedCall' =>
            /\ Len(sent') <= 1
            /\ \A i \in DOMAIN nextTickQueue' : nextTickQueue'[i] # ClosureOf(last', tick)
            /\ nextTickQueue' = nextTickQueue
            /\ OnlyUidWritten
      ]_vars

\* C8 amended: a call passes its payload to emitClient at most once, except
\* particle with the broadcast flag true, which passes it once for each
\* player the registry query returned; once the call has returned no send
\* is pending, except the one META_SET send meta defers, whose callback
\* holds player, key and value until the next tick; the only other state
\* that differs is the uid createProgressBar wrote.
C8_SentOncePerRecipient ==
    [][IsExportedCall' =>
            /\ IF last'.fn = "particle" /\ last'.args[2] = "true"
               THEN /\ Len(sent') = Len(getClosestPlayers(last'.player, 10))
                    /\ \A i \in DOMAIN sent' :
                            sent'[i].to = getClosestPlayers(last'.player, 10)[i]
               ELSE Len(sent') <= 1
            /\ IF last'.fn = "meta"
               THEN nextTickQueue' = Append(nextTickQueue, ClosureOf(last', tick))
               ELSE nextTickQueue' = nextTickQueue
            /\ OnlyUidWritten
      ]_vars

C8_Witness ==
    /\ last.fn = "particle" /\ last.args[2] = "true"
    /\ Len(sent) = 3
    /\ \E i \in DOMAIN nextTickQueue : nextTickQueue[i].issued = tick

\* The duration a caller's argument stands for when an unspecified one
\* defaults to play-once.
PlayOnceDefault(duration) == IF duration = Undefined THEN "-1" ELSE duration

AnimationSend(duration) ==
    [to |-> last.player, event |-> "PLAYER_EMIT_ANIMATION",
     args |-> <<last.args[1], last.args[2], last.args[3], duration>>, issued |-> tick]

ScenarioSend(duration) ==
    [to |-> last.player, event |-> "PLAYER_EMIT_SCENARIO",
     args |-> <<last.args[1], duration>>, issued |-> tick]

\* C9 as stated: for a player not dead, animation sends exactly one event
\* (dictionary, name, flags, duration) and scenario exactly one event
\* (name, duration), and in both an unspecified duration is sent as -1.
C9_ForwardedDefaultBoth_Original ==
    /\ (last.fn = "animation" /\ ~isDead[last.player])
            => sent = <<AnimationSend(PlayOnceDefault(last.args[4]))>>
    /\ (last.fn = "scenario" /\ ~isDead[last.player])
            => sent = <<ScenarioSend(PlayOnceDefault(last.args[2]))>>

\* C9 amended: for a player not dead, animation sends exactly one event
\* (dictionary, name, flags, duration), an unspecified duration sent as -1,
\* and scenario exactly one event (name, duration), the duration as the
\* caller gave it: scenario has no default.
C9_ForwardedDefaultAnimation ==
    /\ (last.fn = "animation" /\ ~isDead[last.player])
            => sent = <<AnimationSend(PlayOnceDefault(last.args[4]))>>
    /\ (last.fn = "scenario" /\ ~isDead[last.player])
            => sent = <<ScenarioSend(last.args[2])>>

C9_Witness ==
    /\ last.fn = "animation" /\ ~isDead[last.player]
    /\ last.args[4] = Undefined
    /\ sent[1].args[4] = "-1"

\* C10: createProgressBar sends exactly one PROGRESSBAR_CREATE to the given
\* player and returns the uid the payload of that event carries, a
\* non-empty string that is also the payload's uid afterwards, generated or
\* not; removeProgressBar sends the uid it is given; a call following
\* another on the same payload returns the same id.
C10_ReturnsSentUid ==
    [][/\ last'.fn = "createProgressBar" =>
            /\ Len(sent') = 1
            /\ sent'[1].to = last'.player
            /\ sent'[1].event = "PROGRESSBAR_CREATE"
            /\ sent'[1].args = <<progressbar.text, last'.ret>>
            /\ progressbar'.uid = last'.ret
            /\ ~Falsy(last'.ret)
            /\ last.fn = "createProgressBar" => last'.ret = last.ret
       /\ last'.fn = "removeProgressBar" =>
            sent' = <<[to |-> last'.player, event |-> "PROGRESSBAR_REMOVE",
                       args |-> <<last'.args[1]>>, issued |-> tick]>>
      ]_vars

C10_Witness ==
    /\ last.fn = "createProgressBar"
    /\ last.hashed
    /\ last.ret = progressbar.uid
    /\ sent[1].args[2] = last.ret

====
